---- MODULE Spec2Model ----
(***************************************************************************)
(* PDF flip book (streamlit_app.py): convert_pdf_to_images, the Pillow     *)
(* downscaling it applies to every page, and the Streamlit script main()   *)
(* that calls it on every rerun and keeps the page cursor in the session.  *)
(***************************************************************************)
EXTENDS Integers, Naturals, Sequences, FiniteSets, TLC

\* ------------------------------------------------------------------ bounds
MaxPages == 3       \* largest page count of an uploaded document
MaxDim == 12        \* largest width, height and max_image_size tried on the resize

\* ------------------------------------------------------- program constants
DefaultMaxImageSize == 1024

VARIABLES
    \* convert_pdf_to_images: locals and position
    pc, uploaded_file, handle, total_pages, page_num, image_paths, exc, retval,
    \* temp_folder on disk
    pdfFile, pageFiles,
    \* what the logger recorded during the call, and observations of the call
    log, failed, closes, usedClosed, entryFiles, prev,
    \* main(): session state, widgets as last rendered, pending widget event
    page_number, uploaded_pdf, event, radio, prevOn, nextOn, clearOn, shown,
    \* resize study
    rw, rh, rM, rout

convVars == <<pc, uploaded_file, handle, total_pages, page_num, image_paths, exc, retval,
              pdfFile, pageFiles, log, failed, closes, usedClosed, entryFiles, prev>>
viewVars == <<page_number, uploaded_pdf, event, radio, prevOn, nextOn, clearOn, shown>>
sizeVars == <<rw, rh, rM, rout>>
vars == <<convVars, viewVars, sizeVars>>

\* ------------------------------------------------------------ data domains
Unset == 0 - 1                          \* a local that has not been assigned
NoSize == <<0, 0>>                      \* no such file
Ordinals == 1 .. (MaxPages + 1)
NotPdf == [pdf |-> FALSE, pages |-> 0]  \* bytes that are not a PDF
PdfBytes == [pdf : {TRUE}, pages : 0 .. MaxPages]
Bytes == PdfBytes \cup {NotPdf}
NoFiles == [n \in Ordinals |-> NoSize]

Max2(a, b) == IF a >= b THEN a ELSE b
Abs(a) == IF a >= 0 THEN a ELSE 0 - a

\* ------------------------------------------------- Pillow: Image.thumbnail
\* round_aspect(number, key) for number = num / den: the floor or the ceiling,
\* whichever has the smaller key (the floor on a tie), and at least 1.
\* rows selects the branch: TRUE when the width is being derived (key is
\* |aspect - n / y|), FALSE when the height is (key is 0 for n = 0, else
\* |aspect - x / n|).  w, h: the image; side: the fixed side of the box.
RoundAspectFloor(w, h, side, rows) ==
    IF rows THEN (side * w) \div h ELSE (side * h) \div w

RoundAspect(w, h, side, rows) ==
    LET num == IF rows THEN side * w ELSE side * h
        den == IF rows THEN h ELSE w
        fl  == num \div den
        ce  == IF num % den = 0 THEN fl ELSE fl + 1
        \* rows: |w/h - n/side| compared through the common denominator h*side
        keyW(n) == Abs(w * side - n * h)
        \* ~rows: |w/h - side/n| = |w*n - side*h| / (h*n), compared by cross product
        lessEqH == IF fl = 0 THEN TRUE
                   ELSE Abs(w * fl - side * h) * ce <= Abs(w * ce - side * h) * fl
        pick == IF rows THEN (IF keyW(fl) <= keyW(ce) THEN fl ELSE ce)
                        ELSE (IF lessEqH THEN fl ELSE ce)
    IN Max2(pick, 1)

\* Image.thumbnail((x, y)): no change when the box holds the image, else the
\* aspect-preserving size inside the box.
Thumbnail(w, h, x, y) ==
    IF x >= w /\ y >= h THEN <<w, h>>
    ELSE IF x * h >= w * y
         THEN <<RoundAspect(w, h, y, TRUE), y>>
         ELSE <<x, RoundAspect(w, h, x, FALSE)>>

\* lines 103-104: resize only when the larger side exceeds max_image_size
Resized(w, h, M) ==
    IF Max2(w, h) > M THEN Thumbnail(w, h, M, M) ELSE <<w, h>>

\* ----------------------------------------------- the document and the disk
\* Rendered pixel size of page n at the default 200 dpi: US Letter portrait,
\* a 3x5 inch card, or a 16:9 slide, depending on the document.
RenderedSize(b, n) ==
    LET k == (b.pages + n) % 3
    IN IF k = 0 THEN <<1700, 2200>> ELSE IF k = 1 THEN <<600, 1000>> ELSE <<2667, 1500>>

\* open(pdf_path, 'wb'); f.write(...): the file holds the new bytes only
SaveUploadAppend(old, b) == Append(old, b)

SaveUpload(old, b) == <<b>>

\* what fitz.open finds in the persisted file
Persisted(file) == IF Len(file) = 0 THEN NotPdf ELSE file[Len(file)]

\* f'page_{page_num+1}.jpg'
PageOrdinalShifted(i) == i + 2

PageOrdinal(i) == i + 1

\* image_paths after the page: appended on success only
PathsAfterAlways(paths, n, ok) == Append(paths, n)

PathsAfter(paths, n, ok) == IF ok THEN Append(paths, n) ELSE paths

\* return image_paths, total_pages
ReturnValueByLen(paths, total) == <<paths, Len(paths)>>

ReturnValue(paths, total) == <<paths, total>>

\* the exception in flight after the inner handler of fitz.open re-raises
OpenErrorSwallowed(e) == "none"

OpenErrorRaised(e) == e

\* the exception in flight after close() raised inside the finally block
CloseErrorPropagated(e) == "CloseError"

CloseErrorLogged(e) == e

\* bool(pdf_document): Document.__len__ is the page count
Truthy(count) == count > 0

\* every operation on the handle observes whether it was already closed
Use == usedClosed' = (usedClosed \/ handle = "Closed")

\* ----------------------------------------------- convert_pdf_to_images
\* entry: fresh locals (line 65)
Enter(b, files, file) ==
    /\ pc' = "save"
    /\ uploaded_file' = b
    /\ handle' = "Unopened"
    /\ total_pages' = Unset
    /\ page_num' = 0
    /\ image_paths' = <<>>
    /\ exc' = "none"
    /\ retval' = <<>>
    /\ log' = {}
    /\ failed' = {}
    /\ closes' = 0
    /\ usedClosed' = FALSE
    /\ pageFiles' = files
    /\ entryFiles' = files
    /\ pdfFile' = file

\* lines 67-75: makedirs, write uploaded.pdf
Save ==
    /\ pc = "save"
    /\ \/ /\ pdfFile' = SaveUpload(pdfFile, uploaded_file)
          /\ pc' = "open"
          /\ UNCHANGED <<exc, log>>
       \/ /\ pdfFile' \in {pdfFile, <<>>}      \* makedirs/open failed, or the write did
          /\ exc' = "SaveError"
          /\ log' = log \cup {"Outer"}
          /\ pc' = "finally"
    /\ UNCHANGED <<uploaded_file, handle, total_pages, page_num, image_paths, retval,
                   pageFiles, failed, closes, usedClosed, entryFiles, prev>>
    /\ UNCHANGED <<viewVars, sizeVars>>

\* line 79, with its handler at 82-85 and the outer one at 120-123
Open ==
    /\ pc = "open"
    /\ \/ /\ Persisted(pdfFile).pdf
          /\ handle' = "Open"
          /\ pc' = "count"
          /\ UNCHANGED <<exc, log>>
       \/ /\ handle' = handle
          /\ exc' = OpenErrorRaised("OpenError")
          /\ log' = log \cup {"OpenError", "Outer"}
          /\ pc' = "finally"
    /\ UNCHANGED <<uploaded_file, total_pages, page_num, image_paths, retval,
                   pdfFile, pageFiles, failed, closes, usedClosed, entryFiles, prev>>
    /\ UNCHANGED <<viewVars, sizeVars>>

\* lines 80-81, same handlers
Count ==
    /\ pc = "count"
    /\ Use
    /\ \/ /\ total_pages' = Persisted(pdfFile).pages
          /\ pc' = "loop"
          /\ UNCHANGED <<exc, log>>
       \/ /\ total_pages' = total_pages
          /\ exc' = OpenErrorRaised("CountError")
          /\ log' = log \cup {"OpenError", "Outer"}
          /\ pc' = "finally"
    /\ UNCHANGED <<uploaded_file, handle, page_num, image_paths, retval,
                   pdfFile, pageFiles, failed, closes, entryFiles, prev>>
    /\ UNCHANGED <<viewVars, sizeVars>>

\* lines 91-116: one iteration of the page loop
Page ==
    /\ pc = "loop"
    /\ page_num < total_pages
    /\ Use
    /\ LET n == PageOrdinal(page_num)
           sz == RenderedSize(Persisted(pdfFile), page_num + 1)
       IN \/ /\ pageFiles' = [pageFiles EXCEPT
                                ![n] = Resized(sz[1], sz[2], DefaultMaxImageSize)]
             /\ image_paths' = PathsAfter(image_paths, n, TRUE)
             /\ UNCHANGED <<failed, log>>
          \/ /\ pageFiles' = pageFiles
             /\ image_paths' = PathsAfter(image_paths, n, FALSE)
             /\ failed' = failed \cup {n}
             /\ log' = log \cup {"PageError"}
    /\ page_num' = page_num + 1
    /\ UNCHANGED <<pc, uploaded_file, handle, total_pages, exc, retval,
                   pdfFile, closes, entryFiles, prev>>
    /\ UNCHANGED <<viewVars, sizeVars>>

\* line 118
Return ==
    /\ pc = "loop"
    /\ page_num >= total_pages
    /\ retval' = ReturnValue(image_paths, total_pages)
    /\ pc' = "finally"
    /\ UNCHANGED <<uploaded_file, handle, total_pages, page_num, image_paths, exc,
                   pdfFile, pageFiles, log, failed, closes, usedClosed, entryFiles, prev>>
    /\ UNCHANGED <<viewVars, sizeVars>>

\* line 126: if pdf_document
Finally ==
    /\ pc = "finally"
    /\ IF handle = "Unopened"
       THEN /\ pc' = "done"
            /\ UNCHANGED <<exc, retval, usedClosed>>
       ELSE /\ Use
            /\ IF total_pages # Unset
               THEN /\ pc' = IF Truthy(total_pages) THEN "close" ELSE "done"
                    /\ UNCHANGED <<exc, retval>>
               ELSE \* the page count could not be read at line 80; __len__ reads it again
                    \/ /\ pc' = IF Truthy(Persisted(pdfFile).pages) THEN "close" ELSE "done"
                       /\ UNCHANGED <<exc, retval>>
                    \/ /\ exc' = "LenError"
                       /\ retval' = <<>>
                       /\ pc' = "done"
    /\ UNCHANGED <<uploaded_file, handle, total_pages, page_num, image_paths,
                   pdfFile, pageFiles, log, failed, closes, entryFiles, prev>>
    /\ UNCHANGED <<viewVars, sizeVars>>

\* lines 127-131
Close ==
    /\ pc = "close"
    /\ Use
    /\ closes' = closes + 1
    /\ \/ /\ handle' = "Closed"
          /\ UNCHANGED <<exc, log>>
       \/ /\ handle' \in {"Open", "Closed"}
          /\ exc' = CloseErrorLogged(exc)
          /\ log' = log \cup {"CloseError"}
    /\ pc' = "done"
    /\ UNCHANGED <<uploaded_file, total_pages, page_num, image_paths, retval,
                   pdfFile, pageFiles, failed, entryFiles, prev>>
    /\ UNCHANGED <<viewVars, sizeVars>>

Convert == Save \/ Open \/ Count \/ Page \/ Return \/ Finally \/ Close

\* the artifacts' sizes on disk
Dims == [i \in DOMAIN image_paths |-> pageFiles[image_paths[i]]]
Summary == [failed |-> failed, exc |-> exc, retval |-> retval, dims |-> Dims]

\* ------------------------------------------------------------- a caller
\* A caller invokes the routine on an output directory: the same one as the
\* previous call (keep) or one that holds nothing yet.
Call(b, keep) ==
    /\ pc = "idle"
    /\ Enter(b, IF keep THEN pageFiles ELSE NoFiles, IF keep THEN pdfFile ELSE <<>>)
    /\ prev' = IF keep /\ uploaded_file = b THEN <<Summary>> ELSE <<>>
    /\ UNCHANGED <<viewVars, sizeVars>>

Receive ==
    /\ pc = "done"
    /\ pc' = "idle"
    /\ UNCHANGED <<uploaded_file, handle, total_pages, page_num, image_paths, exc, retval,
                   pdfFile, pageFiles, log, failed, closes, usedClosed, entryFiles, prev>>
    /\ UNCHANGED <<viewVars, sizeVars>>

InitConv ==
    /\ pc = "idle"
    /\ uploaded_file = NotPdf
    /\ handle = "Unopened"
    /\ total_pages = Unset
    /\ page_num = 0
    /\ image_paths = <<>>
    /\ exc = "none"
    /\ retval = <<>>
    /\ pdfFile = <<>>
    /\ pageFiles = NoFiles
    /\ log = {}
    /\ failed = {}
    /\ closes = 0
    /\ usedClosed = FALSE
    /\ entryFiles = NoFiles
    /\ prev = <<>>

InitView ==
    /\ page_number = 1
    /\ uploaded_pdf = <<>>
    /\ event = <<"none", 0>>
    /\ radio = <<>>
    /\ prevOn = FALSE
    /\ nextOn = FALSE
    /\ clearOn = FALSE
    /\ shown = <<>>

InitSize ==
    /\ rw = 1
    /\ rh = 1
    /\ rM = 1
    /\ rout = NoSize

Init == InitConv /\ InitView /\ InitSize

Next ==
    \/ \E b \in Bytes, keep \in BOOLEAN : Call(b, keep)
    \/ Convert
    \/ Receive

Spec == Init /\ [][Next]_vars

\* ------------------------------------------------------------------ main()
\* One script run starts on a widget event.  With no uploaded file the script
\* renders nothing below the uploader (line 182); otherwise it calls
\* convert_pdf_to_images on a directory made by tempfile.mkdtemp (line 153).
NoEvent == <<"none", 0>>
NothingShown == <<>>

StartRun(up, ev) ==
    /\ pc = "idle"
    /\ uploaded_pdf' = up
    /\ IF up = <<>>
       THEN /\ event' = NoEvent
            /\ radio' = <<>>
            /\ prevOn' = FALSE
            /\ nextOn' = FALSE
            /\ clearOn' = FALSE
            /\ shown' = NothingShown
            /\ UNCHANGED <<convVars, page_number>>
       ELSE /\ event' = ev
            /\ Enter(up[1], NoFiles, <<>>)
            /\ prev' = <<>>
            /\ UNCHANGED <<page_number, radio, prevOn, nextOn, clearOn, shown>>
    /\ UNCHANGED sizeVars

\* st.file_uploader: a file is chosen, or the chosen file is removed
Upload(b) == StartRun(<<b>>, <<"upload", 0>>)

RemoveUpload == uploaded_pdf # <<>> /\ StartRun(<<>>, NoEvent)

\* the widgets of the page as last rendered
PreviousPage == prevOn /\ StartRun(uploaded_pdf, <<"prev", 0>>)

NextPage == nextOn /\ StartRun(uploaded_pdf, <<"next", 0>>)

JumpToPage(q) == radio # <<>> /\ q \in 1 .. radio[2] /\ StartRun(uploaded_pdf, <<"jump", q>>)

ClearUploadedPDF == clearOn /\ StartRun(uploaded_pdf, <<"clear", 0>>)

\* lines 210-213
Navigated(pn, ev, total) ==
    IF ev[1] = "prev" /\ pn > 1 THEN pn - 1
    ELSE IF ev[1] = "next" /\ pn < total THEN pn + 1
    ELSE pn

\* lines 247-251: st.radio(range(1, total + 1), index = pn - 1).  <<>> when
\* the index is rejected, else the value: None (Unset) for no options, the
\* user's choice when this is the widget the user acted on, else the default.
RadioValue(pn, ev, total, rendered) ==
    IF total = 0 THEN <<Unset>>
    ELSE IF ~(0 <= pn - 1 /\ pn - 1 < total) THEN <<>>
    ELSE IF ev[1] = "jump" /\ rendered = <<pn - 1, total>> THEN <<ev[2]>>
    ELSE <<pn>>

\* lines 192-288: the script after convert_pdf_to_images returned or raised
ScriptRest ==
    /\ pc = "done"
    /\ pc' = "idle"
    /\ event' = NoEvent
    /\ IF exc # "none" \/ page_number = Unset
       THEN \* line 283; comparing None with an int raises at line 201
            /\ radio' = <<>>
            /\ prevOn' = FALSE
            /\ nextOn' = FALSE
            /\ clearOn' = FALSE
            /\ shown' = NothingShown
            /\ UNCHANGED <<page_number, pdfFile, pageFiles>>
       ELSE LET paths == retval[1]
                total == retval[2]
                pn1 == Navigated(page_number, event, total)
                rv == RadioValue(pn1, event, total, radio)
                pn2 == IF rv = <<>> THEN pn1 ELSE rv[1]
            IN /\ prevOn' = (page_number > 1)
               /\ nextOn' = (page_number < total)
               /\ shown' = <<total, IF pn1 <= Len(paths) THEN paths[pn1] ELSE 0>>
               /\ radio' = IF rv = <<>> THEN <<>> ELSE <<pn1 - 1, total>>
               /\ clearOn' = TRUE
               /\ IF event[1] = "clear"
                  THEN /\ page_number' = 1
                       /\ \/ pageFiles' = NoFiles /\ pdfFile' = <<>>
                          \/ UNCHANGED <<pageFiles, pdfFile>>     \* rmtree failed
                  ELSE /\ page_number' = pn2
                       /\ UNCHANGED <<pageFiles, pdfFile>>
    /\ UNCHANGED <<uploaded_file, handle, total_pages, page_num, image_paths, exc, retval,
                   log, failed, closes, usedClosed, entryFiles, prev>>
    /\ UNCHANGED <<uploaded_pdf, sizeVars>>

NextViewer ==
    \/ \E b \in Bytes : Upload(b)
    \/ RemoveUpload
    \/ PreviousPage
    \/ NextPage
    \/ \E q \in 1 .. MaxPages : JumpToPage(q)
    \/ ClearUploadedPDF
    \/ Convert
    \/ ScriptRest

SpecViewer == Init /\ [][NextViewer]_vars

\* ------------------------------------------------------------ resize study
InitResize ==
    /\ InitConv
    /\ InitView
    /\ rw \in 1 .. MaxDim
    /\ rh \in 1 .. MaxDim
    /\ rM \in 1 .. MaxDim
    /\ rout = NoSize

Resize ==
    /\ rout = NoSize
    /\ rout' = Resized(rw, rh, rM)
    /\ UNCHANGED <<convVars, viewVars, rw, rh, rM>>

SpecResize == InitResize /\ [][Resize]_vars

\* ================================================================ properties
Returned == pc = "done" /\ exc = "none" /\ Len(retval) = 2
DocPages == Persisted(pdfFile).pages
Elems(seq) == {seq[i] : i \in DOMAIN seq}

\* C1 - fault isolation: once the document is open and its page count N read,
\* the call returns normally whatever set of pages failed; it returns
\* total_pages = N and exactly one artifact page_<n>.jpg for each ordinal n of
\* 1..N that did not fail, none for an ordinal that failed.
C1_FaultIsolation ==
    (pc = "done" /\ total_pages # Unset) =>
        /\ exc = "none"
        /\ Len(retval) = 2
        /\ retval[2] = DocPages
        /\ Elems(retval[1]) = (1 .. DocPages) \ failed
        /\ Len(retval[1]) = Cardinality(Elems(retval[1]))

C1_Witness ==
    /\ Returned
    /\ failed # {}
    /\ Len(retval[1]) >= 1
    /\ retval[2] = MaxPages

\* C2 - resource safety: when the call returns or raises the handle is not
\* open; a handle that was opened has been closed exactly once and no
\* operation was applied to it after the close.
C2_HandleClosed ==
    pc = "done" =>
        /\ handle # "Open"
        /\ (handle = "Closed" => closes = 1)
        /\ ~usedClosed

\* C3 (as claimed) - fatal path: when fitz.open fails the error propagates,
\* nothing is returned, no page is processed, and output_dir holds no
\* page_<n>.jpg file.
OpenFailed == pc = "done" /\ "OpenError" \in log /\ handle = "Unopened"

C3_NoPageFilesAtAll ==
    OpenFailed =>
        /\ exc = "OpenError"
        /\ retval = <<>>
        /\ page_num = 0 /\ failed = {} /\ image_paths = <<>>
        /\ pageFiles = NoFiles

\* C3 (amended) - fatal path: when fitz.open fails the error propagates,
\* nothing is returned, no page is processed, and the page files of
\* output_dir are exactly those it held before the call.
C3_FatalOpen ==
    OpenFailed =>
        /\ exc = "OpenError"
        /\ retval = <<>>
        /\ page_num = 0 /\ failed = {} /\ image_paths = <<>>
        /\ pageFiles = entryFiles

C3_Witness == OpenFailed /\ entryFiles # NoFiles /\ uploaded_file = NotPdf

\* C4 - viewer cursor bound: whenever a document of at least one page is
\* displayed, 1 <= page_number <= total_pages of that document.
C4_CursorBound ==
    (pc = "idle" /\ shown # NothingShown /\ shown[1] >= 1) =>
        (1 <= page_number /\ page_number <= shown[1])

\* C5 - index by ordinal: in the returned sequence the artifact of page
\* ordinal n sits at index n - 1 (position n counting from one).
C5_IndexByOrdinal ==
    Returned => \A i \in DOMAIN retval[1] : retval[1][i] = i

\* C6 - page count: once read, total_pages is the document's page count and
\* stays so; throughout the loop and at return
\* len(image_paths) <= pages attempted <= total_pages; the call returns that
\* total_pages, and len(artifacts) = total_pages exactly when no page failed.
C6_PageCount ==
    (total_pages # Unset /\ pc # "idle") =>
        /\ total_pages = DocPages
        /\ Len(image_paths) <= page_num
        /\ page_num <= total_pages
        /\ Returned =>
              /\ retval[2] = DocPages
              /\ Len(retval[1]) <= retval[2]
              /\ (Len(retval[1]) = retval[2]) <=> (failed = {})

C6_Witness ==
    /\ pc = "loop"
    /\ 0 < page_num /\ page_num < total_pages
    /\ Len(image_paths) < page_num

\* C7 - bounded downscaling: the saved size (w', h') of a w x h image under
\* max_image_size M has max(w', h') <= M and both sides at least 1; it is
\* (w, h) itself when max(w, h) <= M; otherwise the side that was larger is
\* exactly M and the other is within one pixel of the exact scaling.
C7_BoundedDownscale ==
    rout # NoSize =>
        /\ rout[1] >= 1 /\ rout[2] >= 1
        /\ Max2(rout[1], rout[2]) <= rM
        /\ Max2(rw, rh) <= rM => rout = <<rw, rh>>
        /\ Max2(rw, rh) > rM =>
              /\ Max2(rout[1], rout[2]) = rM
              /\ rw >= rh => (rout[1] = rM /\ Abs(rout[2] * rw - rM * rh) < rw)
              /\ rh >= rw => (rout[2] = rM /\ Abs(rout[1] * rh - rM * rw) < rh)

C7_Witness ==
    /\ rout # NoSize
    /\ rw > rM /\ rw > rh
    /\ (rM * rh) % rw # 0
    /\ rout[2] >= 2

\* C8 (as claimed) - directory layout: after a call that returned total_pages
\* = N, uploaded.pdf holds exactly that call's bytes and every page_<n>.jpg in
\* output_dir has 1 <= n <= N.
C8_OnlyThisDocumentsPages ==
    Returned =>
        /\ pdfFile = <<uploaded_file>>
        /\ \A n \in Ordinals : pageFiles[n] # NoSize => n <= retval[2]

\* C8 (amended) - directory layout: after a call that returned total_pages =
\* N, uploaded.pdf holds exactly that call's bytes and every page_<n>.jpg in
\* output_dir either has 1 <= n <= N or was there before the call and was
\* left as it was.
C8_DirectoryLayout ==
    Returned =>
        /\ pdfFile = <<uploaded_file>>
        /\ \A n \in Ordinals : pageFiles[n] # NoSize =>
              (n <= retval[2] \/ (entryFiles[n] # NoSize /\ pageFiles[n] = entryFiles[n]))

C8_Witness ==
    /\ Returned
    /\ retval[2] >= 1
    /\ Len(retval[1]) = retval[2]
    /\ \E n \in Ordinals : n > retval[2] /\ pageFiles[n] # NoSize

\* C9 - idempotence: a second call with the same bytes on the same directory,
\* with the same pages failing, returns the same artifact paths and
\* total_pages, the artifacts have the same sizes, and uploaded.pdf holds the
\* bytes once.
SecondCall ==
    /\ Returned
    /\ prev # <<>>
    /\ prev[1].exc = "none" /\ Len(prev[1].retval) = 2
    /\ prev[1].failed = failed

C9_Idempotent ==
    SecondCall =>
        /\ retval = prev[1].retval
        /\ Dims = prev[1].dims
        /\ pdfFile = <<uploaded_file>>

C9_Witness ==
    /\ SecondCall
    /\ failed # {}
    /\ Len(retval[1]) >= 2

\* C10 - a failing close() is logged only: the step that closes the handle
\* changes neither the value being returned nor the exception in flight, and
\* ends the call.
C10_CloseNeverPropagates ==
    [][pc = "close" => (exc' = exc /\ retval' = retval /\ pc' = "done")]_vars

C10_Witness ==
    /\ pc = "done"
    /\ "CloseError" \in log
    /\ exc = "none"
    /\ retval = <<image_paths, total_pages>>
    /\ total_pages >= 1

\* the same on the raising path: the original error is still the one in flight
C10_WitnessRaising ==
    /\ pc = "done"
    /\ "CloseError" \in log
    /\ exc = "CountError"

====
